---- MODULE Spec2Model ----
(***************************************************************************)
(* Model of src/src/contexts.cc: the script context table                  *)
(* (ScriptContextTable::Extend, ScriptContextTable::Lookup), the binding   *)
(* classifier (GetAttributesAndBindingFlags) and the context chain walk    *)
(* (Context::Lookup, Context::is_declaration_context).                     *)
(***************************************************************************)
EXTENDS Integers, Sequences, FiniteSets, TLC

VARIABLES
  heap,                  \* table handle -> table object (FixedArray store)
  script_context_table,  \* the handle the native context holds
  ext,                   \* record of the last Extend call
  appended,              \* script contexts appended so far, in call order
  table0,                \* the table the behaviour started from
  lk,                    \* record of the last ScriptContextTable::Lookup call
  pc,                    \* "running", or "aborted" after a failed CHECK
  chain,                 \* the context chain of a Context::Lookup call
  res                    \* record of the Context::Lookup call

vars == <<heap, script_context_table, ext, appended, table0, lk, pc,
          chain, res>>

(***************************************************************************)
(* Bounds of the model.                                                    *)
(***************************************************************************)
MaxAppends == 5        \* Extend calls per behaviour
MaxInitLength == 2     \* length of the starting table under Spec
MaxHdr == 4            \* largest used/length header value under SpecExtend
MaxDepth == 2          \* contexts below the native context under SpecLookup

(***************************************************************************)
(* Program constants.                                                      *)
(***************************************************************************)
\* ScriptContextTable::kFirstContextSlot: slot 0 of the array holds `used`.
kFirstContextSlot == 1
\* Smi::kMaxValue (31-bit small integers).
kSmiMaxValue == 1073741823
\* Context::kNotFound and the "no slot" answer of ScopeInfo::ContextSlotIndex.
kNotFound == -1

\* Context::THROWN_OBJECT_INDEX (= MIN_CONTEXT_SLOTS)
THROWN_OBJECT_INDEX == 4

NoHandle == 0

Names == {"x", "y", "z"}

(***************************************************************************)
(* Script contexts and their scope infos.  A scope info is the set of its  *)
(* context-allocated variables.                                            *)
(***************************************************************************)
ScriptContexts == {"S1", "S2", "S3"}

Var(n, s, m, i) == [name |-> n, slot |-> s, mode |-> m, init_flag |-> i]

scope_info(context) ==
  CASE context = "S1" -> {Var("x", 3, "LET", "kNeedsInitialization")}
    [] context = "S2" -> {Var("x", 5, "CONST", "kCreatedInitialized"),
                          Var("y", 4, "VAR", "kCreatedInitialized")}
    [] context = "S3" -> {Var("y", 6, "LET", "kCreatedInitialized")}
    [] OTHER -> {}

\* ScopeInfo::ContextSlotIndex: the slot of `name` with its mode and
\* initialization flag, or a negative index.
ContextSlotIndex(si, name) ==
  IF \E v \in si : v.name = name
    THEN LET v == CHOOSE v \in si : v.name = name
         IN [slot_index |-> v.slot, mode |-> v.mode, init_flag |-> v.init_flag]
    ELSE [slot_index |-> kNotFound, mode |-> "none", init_flag |-> "none"]

(***************************************************************************)
(* Table objects: the header fields and the written context slots.         *)
(***************************************************************************)
Table(u, l, e) == [used |-> u, length |-> l, elems |-> e]

NoTable == Table(0, 0, <<>>)

\* FixedArray::get; a slot never written holds undefined.
Get(t, i) == IF i \in DOMAIN t.elems THEN t.elems[i] ELSE "undefined"

\* FixedArray::set
Set(t, i, v) ==
  [t EXCEPT !.elems = [j \in (DOMAIN t.elems) \cup {i} |->
                          IF j = i THEN v ELSE t.elems[j]]]

\* ScriptContextTable::set_used
set_used(t, u) == [t EXCEPT !.used = u]

\* ScriptContextTable::GetContext(table, i)
GetContext(t, i) == Get(t, i + kFirstContextSlot)

\* Factory::CopyFixedArrayAndGrow(array, grow_by): a fresh array, the old
\* contents copied, grow_by more slots.
CopyFixedArrayAndGrow(t, grow_by) == [t EXCEPT !.length = t.length + grow_by]

(***************************************************************************)
(* ScriptContextTable::Extend                                              *)
(***************************************************************************)
Fatal(hp) == [ok |-> FALSE, heap |-> hp, result |-> NoHandle]

\* Faulty variant: the new entry stored without the kFirstContextSlot offset.
ExtendStoreNoOffset(hp, result, used, script_context) ==
  [ok |-> TRUE,
   heap |-> [hp EXCEPT ![result] =
               Set(set_used(hp[result], used + 1), used, script_context)],
   result |-> result]

\* Faulty variant: `used` written back without the increment.
ExtendStoreStaleUsed(hp, result, used, script_context) ==
  [ok |-> TRUE,
   heap |-> [hp EXCEPT ![result] =
               Set(set_used(hp[result], used),
                   used + kFirstContextSlot, script_context)],
   result |-> result]

\* lines 32-36: set_used, set the new entry, return result
ExtendStore(hp, result, used, script_context) ==
  [ok |-> TRUE,
   heap |-> [hp EXCEPT ![result] =
               Set(set_used(hp[result], used + 1),
                   used + kFirstContextSlot, script_context)],
   result |-> result]

\* Faulty variant: the table is copied on every call.
ExtendAlwaysGrow(hp, table, script_context) ==
  LET used == hp[table].used
      length == hp[table].length
  IN IF ~(used >= 0 /\ length > 0 /\ used < length)
       THEN Fatal(hp)
       ELSE IF ~(length < kSmiMaxValue \div 2)
              THEN Fatal(hp)
              ELSE ExtendStore(
                     Append(hp, CopyFixedArrayAndGrow(hp[table], length)),
                     Len(hp) + 1, used, script_context)

\* Faulty variant: the copy grows by `used` instead of `length`.
ExtendGrowByUsed(hp, table, script_context) ==
  LET used == hp[table].used
      length == hp[table].length
  IN IF ~(used >= 0 /\ length > 0 /\ used < length)
       THEN Fatal(hp)
       ELSE IF used + kFirstContextSlot = length
         THEN IF ~(length < kSmiMaxValue \div 2)
                THEN Fatal(hp)
                ELSE ExtendStore(
                       Append(hp, CopyFixedArrayAndGrow(hp[table], used)),
                       Len(hp) + 1, used, script_context)
         ELSE ExtendStore(hp, table, used, script_context)

\* Faulty variant: on growth `used` is also bumped on the table passed in.
ExtendMutatesOld(hp, table, script_context) ==
  LET used == hp[table].used
      length == hp[table].length
  IN IF ~(used >= 0 /\ length > 0 /\ used < length)
       THEN Fatal(hp)
       ELSE IF used + kFirstContextSlot = length
         THEN IF ~(length < kSmiMaxValue \div 2)
                THEN Fatal(hp)
                ELSE ExtendStore(
                       Append([hp EXCEPT ![table] = set_used(@, used + 1)],
                              CopyFixedArrayAndGrow(hp[table], length)),
                       Len(hp) + 1, used, script_context)
         ELSE ExtendStore(hp, table, used, script_context)

\* Faulty variant: the CHECKs let used == length and the size ceiling through.
ExtendLooseCheck(hp, table, script_context) ==
  LET used == hp[table].used
      length == hp[table].length
  IN IF ~(used >= 0 /\ length > 0 /\ used <= length)
       THEN Fatal(hp)
       ELSE IF used + kFirstContextSlot = length
         THEN IF ~(length <= kSmiMaxValue \div 2)
                THEN Fatal(hp)
                ELSE ExtendStore(
                       Append(hp, CopyFixedArrayAndGrow(hp[table], length)),
                       Len(hp) + 1, used, script_context)
         ELSE ExtendStore(hp, table, used, script_context)

Extend(hp, table, script_context) ==
  LET used == hp[table].used
      length == hp[table].length
  IN IF ~(used >= 0 /\ length > 0 /\ used < length)
       THEN Fatal(hp)
       ELSE IF used + kFirstContextSlot = length
         THEN IF ~(length < kSmiMaxValue \div 2)
                THEN Fatal(hp)
                ELSE ExtendStore(
                       Append(hp, CopyFixedArrayAndGrow(hp[table], length)),
                       Len(hp) + 1, used, script_context)
         ELSE ExtendStore(hp, table, used, script_context)

(***************************************************************************)
(* ScriptContextTable::Lookup                                              *)
(***************************************************************************)
NoResult ==
  [found |-> FALSE, context_index |-> kNotFound, slot_index |-> kNotFound,
   mode |-> "none", init_flag |-> "none"]

RECURSIVE LookupFrom(_, _, _)
LookupFrom(t, name, i) ==
  IF ~(i < t.used) THEN NoResult
  ELSE LET r == ContextSlotIndex(scope_info(GetContext(t, i)), name)
       IN IF r.slot_index >= 0
            THEN [found |-> TRUE, context_index |-> i,
                  slot_index |-> r.slot_index,
                  mode |-> r.mode, init_flag |-> r.init_flag]
            ELSE LookupFrom(t, name, i + 1)

\* Faulty variant: the scan keeps the last declaring entry instead of the first.
RECURSIVE LookupLastFrom(_, _, _)
LookupLastFrom(t, name, i) ==
  IF i < 0 THEN NoResult
  ELSE LET r == ContextSlotIndex(scope_info(GetContext(t, i)), name)
       IN IF r.slot_index >= 0
            THEN [found |-> TRUE, context_index |-> i,
                  slot_index |-> r.slot_index,
                  mode |-> r.mode, init_flag |-> r.init_flag]
            ELSE LookupLastFrom(t, name, i - 1)

LookupLast(t, name) == LookupLastFrom(t, name, t.used - 1)

Lookup(t, name) == LookupFrom(t, name, 0)

(***************************************************************************)
(* GetAttributesAndBindingFlags                                            *)
(***************************************************************************)
\* Faulty variant: a VAR binding threads the init flag like a LET one.
GetAttributesAndBindingFlagsVarChecked(mode, init_flag, attributes, binding_flags) ==
  CASE mode = "VAR" ->
         [attributes |-> "NONE",
          binding_flags |-> IF init_flag = "kNeedsInitialization"
                              THEN "MUTABLE_CHECK_INITIALIZED"
                              ELSE "MUTABLE_IS_INITIALIZED",
          unreachable |-> FALSE]
    [] mode = "LET" ->
         [attributes |-> "NONE",
          binding_flags |-> IF init_flag = "kNeedsInitialization"
                              THEN "MUTABLE_CHECK_INITIALIZED"
                              ELSE "MUTABLE_IS_INITIALIZED",
          unreachable |-> FALSE]
    [] mode = "CONST_LEGACY" ->
         [attributes |-> "READ_ONLY",
          binding_flags |-> IF init_flag = "kNeedsInitialization"
                              THEN "IMMUTABLE_CHECK_INITIALIZED"
                              ELSE "IMMUTABLE_IS_INITIALIZED",
          unreachable |-> FALSE]
    [] mode = "CONST" ->
         [attributes |-> "READ_ONLY",
          binding_flags |-> IF init_flag = "kNeedsInitialization"
                              THEN "IMMUTABLE_CHECK_INITIALIZED_HARMONY"
                              ELSE "IMMUTABLE_IS_INITIALIZED_HARMONY",
          unreachable |-> FALSE]
    [] OTHER ->
         [attributes |-> attributes, binding_flags |-> binding_flags,
          unreachable |-> TRUE]

\* Faulty variant: a CONST binding gets the legacy binding flags.
GetAttributesAndBindingFlagsConstAsLegacy(mode, init_flag, attributes, binding_flags) ==
  CASE mode = "VAR" ->
         [attributes |-> "NONE",
          binding_flags |-> "MUTABLE_IS_INITIALIZED",
          unreachable |-> FALSE]
    [] mode = "LET" ->
         [attributes |-> "NONE",
          binding_flags |-> IF init_flag = "kNeedsInitialization"
                              THEN "MUTABLE_CHECK_INITIALIZED"
                              ELSE "MUTABLE_IS_INITIALIZED",
          unreachable |-> FALSE]
    [] mode = "CONST_LEGACY" ->
         [attributes |-> "READ_ONLY",
          binding_flags |-> IF init_flag = "kNeedsInitialization"
                              THEN "IMMUTABLE_CHECK_INITIALIZED"
                              ELSE "IMMUTABLE_IS_INITIALIZED",
          unreachable |-> FALSE]
    [] mode = "CONST" ->
         [attributes |-> "READ_ONLY",
          binding_flags |-> IF init_flag = "kNeedsInitialization"
                              THEN "IMMUTABLE_CHECK_INITIALIZED"
                              ELSE "IMMUTABLE_IS_INITIALIZED",
          unreachable |-> FALSE]
    [] OTHER ->
         [attributes |-> attributes, binding_flags |-> binding_flags,
          unreachable |-> TRUE]

\* `attributes` and `binding_flags` are the values the out-parameters hold on
\* entry; the UNREACHABLE() cases leave them untouched.
GetAttributesAndBindingFlags(mode, init_flag, attributes, binding_flags) ==
  CASE mode = "VAR" ->
         [attributes |-> "NONE", binding_flags |-> "MUTABLE_IS_INITIALIZED",
          unreachable |-> FALSE]
    [] mode = "LET" ->
         [attributes |-> "NONE",
          binding_flags |-> IF init_flag = "kNeedsInitialization"
                              THEN "MUTABLE_CHECK_INITIALIZED"
                              ELSE "MUTABLE_IS_INITIALIZED",
          unreachable |-> FALSE]
    [] mode = "CONST_LEGACY" ->
         [attributes |-> "READ_ONLY",
          binding_flags |-> IF init_flag = "kNeedsInitialization"
                              THEN "IMMUTABLE_CHECK_INITIALIZED"
                              ELSE "IMMUTABLE_IS_INITIALIZED",
          unreachable |-> FALSE]
    [] mode = "CONST" ->
         [attributes |-> "READ_ONLY",
          binding_flags |-> IF init_flag = "kNeedsInitialization"
                              THEN "IMMUTABLE_CHECK_INITIALIZED_HARMONY"
                              ELSE "IMMUTABLE_IS_INITIALIZED_HARMONY",
          unreachable |-> FALSE]
    [] OTHER ->
         [attributes |-> attributes, binding_flags |-> binding_flags,
          unreachable |-> TRUE]

(***************************************************************************)
(* Objects, as the object model answers for the name being looked up.      *)
(*   own         JSReceiver::GetOwnPropertyAttributes                      *)
(*   inherited   what the prototype chain adds when the property is not    *)
(*               an own one                                                *)
(*   unscopables Object::GetProperty(receiver, unscopables_symbol)         *)
(*   blacklist   Object::GetProperty(unscopables, name)                    *)
(* "Nothing" and "throws" are a trap or getter raising an exception.       *)
(***************************************************************************)
Object(ce, own, inh, uns, bl) ==
  [is_context_extension |-> ce, own |-> own, inherited |-> inh,
   unscopables |-> uns, blacklist |-> bl]

NoObject == Object(FALSE, "none", "none", "none", "none")

GetOwnPropertyAttributes(object) == object.own

GetPropertyAttributes(object) ==
  IF object.own = "ABSENT" THEN object.inherited ELSE object.own

\* Faulty variant: a failure to fetch the unscopables object, or the
\* name's entry in it, is swallowed and the property reported as found.
UnscopableLookupSwallows(object) ==
  LET attrs == GetPropertyAttributes(object)
  IN IF attrs = "Nothing" \/ attrs = "ABSENT"
       THEN [maybe |-> attrs, probes |-> <<"GetPropertyAttributes">>]
     ELSE IF object.unscopables # "object"
       THEN [maybe |-> attrs,
             probes |-> <<"GetPropertyAttributes", "GetUnscopables">>]
     ELSE [maybe |-> IF object.blacklist = "true" THEN "ABSENT" ELSE attrs,
           probes |-> <<"GetPropertyAttributes", "GetUnscopables",
                        "GetBlacklist">>]

\* Faulty variant: the entry for the name in the unscopables object is
\* fetched but not honoured.
UnscopableLookupIgnoresEntry(object) ==
  LET attrs == GetPropertyAttributes(object)
  IN IF attrs = "Nothing" \/ attrs = "ABSENT"
       THEN [maybe |-> attrs, probes |-> <<"GetPropertyAttributes">>]
     ELSE IF object.unscopables = "throws"
       THEN [maybe |-> "Nothing",
             probes |-> <<"GetPropertyAttributes", "GetUnscopables">>]
     ELSE IF object.unscopables # "object"
       THEN [maybe |-> attrs,
             probes |-> <<"GetPropertyAttributes", "GetUnscopables">>]
     ELSE IF object.blacklist = "throws"
       THEN [maybe |-> "Nothing",
             probes |-> <<"GetPropertyAttributes", "GetUnscopables",
                          "GetBlacklist">>]
     ELSE [maybe |-> attrs,
           probes |-> <<"GetPropertyAttributes", "GetUnscopables",
                        "GetBlacklist">>]

\* UnscopableLookup: the attributes, and the probes made on the receiver.
UnscopableLookup(object) ==
  LET attrs == GetPropertyAttributes(object)
  IN IF attrs = "Nothing" \/ attrs = "ABSENT"
       THEN [maybe |-> attrs, probes |-> <<"GetPropertyAttributes">>]
     ELSE IF object.unscopables = "throws"
       THEN [maybe |-> "Nothing",
             probes |-> <<"GetPropertyAttributes", "GetUnscopables">>]
     ELSE IF object.unscopables # "object"
       THEN [maybe |-> attrs,
             probes |-> <<"GetPropertyAttributes", "GetUnscopables">>]
     ELSE IF object.blacklist = "throws"
       THEN [maybe |-> "Nothing",
             probes |-> <<"GetPropertyAttributes", "GetUnscopables",
                          "GetBlacklist">>]
     ELSE [maybe |-> IF object.blacklist = "true" THEN "ABSENT" ELSE attrs,
           probes |-> <<"GetPropertyAttributes", "GetUnscopables",
                        "GetBlacklist">>]

(***************************************************************************)
(* Contexts.  extension is "null", "object" (a JSReceiver), "scope_info",  *)
(* "sloppy_eval" (SloppyBlockWithEvalContextExtension: a scope info and an *)
(* extension object) or "string" (the catch name).  info is the scope info *)
(* the slot search uses: the closure's for a function context, the         *)
(* context's own otherwise.                                                *)
(***************************************************************************)
NoFunctionVar == [name |-> "", slot |-> kNotFound, mode |-> "none"]

\* closure is the identity of the owning closure; the contexts Lookup
\* is run on all belong to closure 1.
Context(kind, extension, object, info, decl, cname, fvar) ==
  [kind |-> kind, extension |-> extension, object |-> object, info |-> info,
   is_declaration_scope |-> decl, catch_name |-> cname,
   function_var |-> fvar, closure |-> 1]

IsNativeContext(c) == c.kind = "NATIVE"
IsScriptContext(c) == c.kind = "SCRIPT"
IsFunctionContext(c) == c.kind = "FUNCTION"
IsBlockContext(c) == c.kind = "BLOCK"
IsWithContext(c) == c.kind = "WITH"
IsCatchContext(c) == c.kind = "CATCH"

\* Faulty variant: a block context is never a declaration context.
is_declaration_context_no_blocks(c) ==
  IsFunctionContext(c) \/ IsNativeContext(c) \/ IsScriptContext(c)

is_declaration_context(c) ==
  IF IsFunctionContext(c) \/ IsNativeContext(c) \/ IsScriptContext(c)
    THEN TRUE
  ELSE IF ~IsBlockContext(c) THEN FALSE
  ELSE c.extension = "sloppy_eval" \/ c.is_declaration_scope

\* Context::declaration_context on context_chain[1].  DEBUG tells whether
\* the build has DCHECKs compiled in; a failing DCHECK is fatal.
RECURSIVE declaration_context_from(_, _, _, _)
declaration_context_from(context_chain, current, DEBUG, visited) ==
  IF is_declaration_context(context_chain[current])
    THEN [fatal |-> FALSE, current |-> current, visited |-> visited]
  ELSE LET previous == current + 1
       IN IF DEBUG /\ context_chain[previous].closure
                        # context_chain[1].closure
            THEN [fatal |-> TRUE, current |-> previous,
                  visited |-> Append(visited, previous)]
          ELSE declaration_context_from(context_chain, previous, DEBUG,
                                        Append(visited, previous))

declaration_context(context_chain, DEBUG) ==
  declaration_context_from(context_chain, 1, DEBUG, <<1>>)

\* Context::extension_object: "null" or "object"
extension_object(c) ==
  IF c.extension = "null" THEN "null"
  ELSE IF IsBlockContext(c)
    THEN IF c.extension # "sloppy_eval" THEN "null" ELSE "object"
  ELSE "object"

\* Context::extension_receiver
extension_receiver(c) ==
  IF IsWithContext(c) THEN "object" ELSE extension_object(c)

\* ScopeInfo::FunctionContextSlotIndex
FunctionContextSlotIndex(c, name) ==
  IF c.function_var.name = name
    THEN [function_index |-> c.function_var.slot, mode |-> c.function_var.mode]
    ELSE [function_index |-> kNotFound, mode |-> "none"]

(***************************************************************************)
(* Context::Lookup                                                         *)
(***************************************************************************)
NoHolder == [type |-> "null", node |-> 0, script |-> "none"]

Holder(type, node, script) == [type |-> type, node |-> node, script |-> script]

Found(holder, index, attributes, binding_flags, visited, probes) ==
  [holder |-> holder, index |-> index, attributes |-> attributes,
   binding_flags |-> binding_flags, pending_exception |-> FALSE,
   visited |-> visited, probes |-> probes]

\* 1. (lines 282-296) the attribute probe on the extension receiver
ProbeReceiver(context, name, flags) ==
  LET object == context.object
  IN IF "FOLLOW_PROTOTYPE_CHAIN" \notin flags \/ object.is_context_extension
       THEN [maybe |-> GetOwnPropertyAttributes(object),
             probes |-> <<"GetOwnPropertyAttributes">>]
     ELSE IF IsWithContext(context)
       THEN IF name = "this"
              THEN [maybe |-> "ABSENT", probes |-> <<>>]
              ELSE UnscopableLookup(object)
     ELSE [maybe |-> GetPropertyAttributes(object),
           probes |-> <<"GetPropertyAttributes">>]

\* Faulty variant: a with context is probed even under SKIP_WITH_CONTEXT.
HasReceiverPhaseIgnoringSkip(context, flags) ==
  /\ \/ IsNativeContext(context)
     \/ IsWithContext(context)
     \/ IsFunctionContext(context)
     \/ IsBlockContext(context)
  /\ extension_receiver(context) # "null"

\* Faulty variant: the extension object of a function context is not
\* probed, so a context slot of the same name answers instead.
HasReceiverPhaseNoFunction(context, flags) ==
  /\ \/ IsNativeContext(context)
     \/ (IsWithContext(context) /\ "SKIP_WITH_CONTEXT" \notin flags)
     \/ IsBlockContext(context)
  /\ extension_receiver(context) # "null"

\* lines 250-253
HasReceiverPhase(context, flags) ==
  /\ \/ IsNativeContext(context)
     \/ (IsWithContext(context) /\ "SKIP_WITH_CONTEXT" \notin flags)
     \/ IsFunctionContext(context)
     \/ IsBlockContext(context)
  /\ extension_receiver(context) # "null"

\* Faulty variant: a catch context binds every name.
SlotPhaseCatchAnyName(context, i, name, follow_context_chain, attributes) ==
  IF IsFunctionContext(context) \/ IsBlockContext(context)
     \/ IsScriptContext(context)
    THEN LET s == ContextSlotIndex(context.info, name)
             f == FunctionContextSlotIndex(context, name)
         IN IF s.slot_index >= 0
              THEN LET b == GetAttributesAndBindingFlags(
                              s.mode, s.init_flag, attributes,
                              "MISSING_BINDING")
                   IN [found |-> TRUE, index |-> s.slot_index,
                       attributes |-> b.attributes,
                       binding_flags |-> b.binding_flags]
            ELSE IF follow_context_chain /\ IsFunctionContext(context)
                    /\ f.function_index >= 0
              THEN [found |-> TRUE, index |-> f.function_index,
                    attributes |-> "READ_ONLY",
                    binding_flags |->
                      IF f.mode = "CONST_LEGACY"
                        THEN "IMMUTABLE_IS_INITIALIZED"
                        ELSE "IMMUTABLE_IS_INITIALIZED_HARMONY"]
            ELSE [found |-> FALSE, index |-> kNotFound,
                  attributes |-> attributes,
                  binding_flags |-> "MISSING_BINDING"]
  ELSE IF IsCatchContext(context)
    THEN [found |-> TRUE, index |-> THROWN_OBJECT_INDEX,
          attributes |-> "NONE", binding_flags |-> "MUTABLE_IS_INITIALIZED"]
  ELSE [found |-> FALSE, index |-> kNotFound, attributes |-> attributes,
        binding_flags |-> "MISSING_BINDING"]

\* Faulty variant: the slots of a script context are not searched; a
\* script-level name is only found through the script context table.
SlotPhaseSkipsScript(context, i, name, follow_context_chain, attributes) ==
  IF IsFunctionContext(context) \/ IsBlockContext(context)
    THEN LET s == ContextSlotIndex(context.info, name)
             f == FunctionContextSlotIndex(context, name)
         IN IF s.slot_index >= 0
              THEN LET b == GetAttributesAndBindingFlags(
                              s.mode, s.init_flag, attributes,
                              "MISSING_BINDING")
                   IN [found |-> TRUE, index |-> s.slot_index,
                       attributes |-> b.attributes,
                       binding_flags |-> b.binding_flags]
            ELSE IF follow_context_chain /\ IsFunctionContext(context)
                    /\ f.function_index >= 0
              THEN [found |-> TRUE, index |-> f.function_index,
                    attributes |-> "READ_ONLY",
                    binding_flags |->
                      IF f.mode = "CONST_LEGACY"
                        THEN "IMMUTABLE_IS_INITIALIZED"
                        ELSE "IMMUTABLE_IS_INITIALIZED_HARMONY"]
            ELSE [found |-> FALSE, index |-> kNotFound,
                  attributes |-> attributes,
                  binding_flags |-> "MISSING_BINDING"]
  ELSE IF IsCatchContext(context) /\ name = context.catch_name
    THEN [found |-> TRUE, index |-> THROWN_OBJECT_INDEX,
          attributes |-> "NONE", binding_flags |-> "MUTABLE_IS_INITIALIZED"]
  ELSE [found |-> FALSE, index |-> kNotFound, attributes |-> attributes,
        binding_flags |-> "MISSING_BINDING"]

\* Faulty variant: the function name slot is consulted whether or not
\* the context chain is followed.
SlotPhaseFunctionNameAlways(context, i, name, follow_context_chain, attributes) ==
  IF IsFunctionContext(context) \/ IsBlockContext(context)
     \/ IsScriptContext(context)
    THEN LET s == ContextSlotIndex(context.info, name)
             f == FunctionContextSlotIndex(context, name)
         IN IF s.slot_index >= 0
              THEN LET b == GetAttributesAndBindingFlags(
                              s.mode, s.init_flag, attributes,
                              "MISSING_BINDING")
                   IN [found |-> TRUE, index |-> s.slot_index,
                       attributes |-> b.attributes,
                       binding_flags |-> b.binding_flags]
            ELSE IF IsFunctionContext(context) /\ f.function_index >= 0
              THEN [found |-> TRUE, index |-> f.function_index,
                    attributes |-> "READ_ONLY",
                    binding_flags |->
                      IF f.mode = "CONST_LEGACY"
                        THEN "IMMUTABLE_IS_INITIALIZED"
                        ELSE "IMMUTABLE_IS_INITIALIZED_HARMONY"]
            ELSE [found |-> FALSE, index |-> kNotFound,
                  attributes |-> attributes,
                  binding_flags |-> "MISSING_BINDING"]
  ELSE IF IsCatchContext(context) /\ name = context.catch_name
    THEN [found |-> TRUE, index |-> THROWN_OBJECT_INDEX,
          attributes |-> "NONE", binding_flags |-> "MUTABLE_IS_INITIALIZED"]
  ELSE [found |-> FALSE, index |-> kNotFound, attributes |-> attributes,
        binding_flags |-> "MISSING_BINDING"]

\* 2. (lines 312-368) the slots of the context proper; attributes is the
\* value *attributes holds on entry
SlotPhase(context, i, name, follow_context_chain, attributes) ==
  IF IsFunctionContext(context) \/ IsBlockContext(context)
     \/ IsScriptContext(context)
    THEN LET s == ContextSlotIndex(context.info, name)
             f == FunctionContextSlotIndex(context, name)
         IN IF s.slot_index >= 0
              THEN LET b == GetAttributesAndBindingFlags(
                              s.mode, s.init_flag, attributes,
                              "MISSING_BINDING")
                   IN [found |-> TRUE, index |-> s.slot_index,
                       attributes |-> b.attributes,
                       binding_flags |-> b.binding_flags]
            ELSE IF follow_context_chain /\ IsFunctionContext(context)
                    /\ f.function_index >= 0
              THEN [found |-> TRUE, index |-> f.function_index,
                    attributes |-> "READ_ONLY",
                    binding_flags |->
                      IF f.mode = "CONST_LEGACY"
                        THEN "IMMUTABLE_IS_INITIALIZED"
                        ELSE "IMMUTABLE_IS_INITIALIZED_HARMONY"]
            ELSE [found |-> FALSE, index |-> kNotFound,
                  attributes |-> attributes,
                  binding_flags |-> "MISSING_BINDING"]
  ELSE IF IsCatchContext(context) /\ name = context.catch_name
    THEN [found |-> TRUE, index |-> THROWN_OBJECT_INDEX,
          attributes |-> "NONE", binding_flags |-> "MUTABLE_IS_INITIALIZED"]
  ELSE [found |-> FALSE, index |-> kNotFound, attributes |-> attributes,
        binding_flags |-> "MISSING_BINDING"]

\* Faulty variant: the walk never stops at a declaration context.
StopsHereNativeOnly(context, flags) == IsNativeContext(context)

\* 3. (lines 371-373)
StopsHere(context, flags) ==
  \/ IsNativeContext(context)
  \/ ("STOP_AT_DECLARATION_SCOPE" \in flags /\ is_declaration_context(context))

\* Faulty variant: at the native context the global object is probed
\* first and the script context table only when it lacks the name.
RECURSIVE LookupLoopObjectFirst(_, _, _, _, _, _, _, _)
LookupLoopObjectFirst(context_chain, table, name, flags, i, attributes, visited0, probes0) ==
  LET context == context_chain[i]
      visited == Append(visited0, i)
      phase1 == HasReceiverPhase(context, flags)
      p == IF phase1 THEN ProbeReceiver(context, name, flags)
           ELSE [maybe |-> "none", probes |-> <<>>]
      probes1 == probes0 \o [k \in 1..Len(p.probes) |-> <<i, p.probes[k]>>]
      tried == phase1 /\ IsNativeContext(context) /\ p.maybe = "ABSENT"
      r == IF tried THEN Lookup(table, name) ELSE NoResult
      probes2 == IF tried THEN Append(probes1, <<i, "ScriptContextTable">>)
                 ELSE probes1
      attributes1 == IF phase1 /\ p.maybe # "Nothing"
                       THEN p.maybe ELSE attributes
      s == SlotPhase(context, i, name, "FOLLOW_CONTEXT_CHAIN" \in flags,
                     attributes1)
  IN IF phase1 /\ p.maybe = "Nothing"
       THEN [holder |-> NoHolder, index |-> kNotFound,
             attributes |-> attributes, binding_flags |-> "MISSING_BINDING",
             pending_exception |-> TRUE,
             visited |-> visited, probes |-> probes2]
     ELSE IF phase1 /\ p.maybe # "ABSENT"
       THEN Found(Holder("object", i, "none"), kNotFound, attributes1,
                  "MISSING_BINDING", visited, probes2)
     ELSE IF r.found
       THEN LET b == GetAttributesAndBindingFlags(
                       r.mode, r.init_flag, attributes1, "MISSING_BINDING")
            IN Found(Holder("script_context", i,
                            GetContext(table, r.context_index)),
                     r.slot_index, b.attributes, b.binding_flags,
                     visited, probes2)
     ELSE IF s.found
       THEN Found(Holder("context", i, "none"), s.index, s.attributes,
                  s.binding_flags, visited, probes2)
     ELSE IF StopsHere(context, flags) \/ "FOLLOW_CONTEXT_CHAIN" \notin flags
       THEN Found(NoHolder, kNotFound, attributes1, "MISSING_BINDING",
                  visited, probes2)
     ELSE LookupLoopObjectFirst(context_chain, table, name, flags, i + 1,
                                attributes1, visited, probes2)

\* One pass of the do-while loop at node i, then the rest of the walk.
\* table is the native context's script context table; attributes is the
\* current value of *attributes; visited and probes record the contexts
\* entered and the object-model and table queries made.
RECURSIVE LookupLoop(_, _, _, _, _, _, _, _)
LookupLoop(context_chain, table, name, flags, i, attributes, visited0, probes0) ==
  LET context == context_chain[i]
      visited == Append(visited0, i)
      phase1 == HasReceiverPhase(context, flags)
      tried == phase1 /\ IsNativeContext(context)
      r == IF tried THEN Lookup(table, name) ELSE NoResult
      probes1 == IF tried THEN Append(probes0, <<i, "ScriptContextTable">>)
                 ELSE probes0
      p == IF phase1 /\ ~r.found THEN ProbeReceiver(context, name, flags)
           ELSE [maybe |-> "none", probes |-> <<>>]
      probes2 == probes1 \o [k \in 1..Len(p.probes) |-> <<i, p.probes[k]>>]
      attributes1 == IF phase1 /\ ~r.found /\ p.maybe # "Nothing"
                       THEN p.maybe ELSE attributes
      s == SlotPhase(context, i, name, "FOLLOW_CONTEXT_CHAIN" \in flags,
                     attributes1)
  IN IF r.found
       THEN LET b == GetAttributesAndBindingFlags(
                       r.mode, r.init_flag, attributes, "MISSING_BINDING")
            IN Found(Holder("script_context", i,
                            GetContext(table, r.context_index)),
                     r.slot_index, b.attributes, b.binding_flags,
                     visited, probes1)
     ELSE IF phase1 /\ p.maybe = "Nothing"
       THEN [holder |-> NoHolder, index |-> kNotFound,
             attributes |-> attributes, binding_flags |-> "MISSING_BINDING",
             pending_exception |-> TRUE,
             visited |-> visited, probes |-> probes2]
     ELSE IF phase1 /\ p.maybe # "ABSENT"
       THEN Found(Holder("object", i, "none"), kNotFound, attributes1,
                  "MISSING_BINDING", visited, probes2)
     ELSE IF s.found
       THEN Found(Holder("context", i, "none"), s.index, s.attributes,
                  s.binding_flags, visited, probes2)
     ELSE IF StopsHere(context, flags) \/ "FOLLOW_CONTEXT_CHAIN" \notin flags
       THEN Found(NoHolder, kNotFound, attributes1, "MISSING_BINDING",
                  visited, probes2)
     ELSE LookupLoop(context_chain, table, name, flags, i + 1, attributes1,
                     visited, probes2)

\* Faulty variant: *attributes is not reset on entry and still holds a
\* value of the caller's.
Context_LookupStaleAttributes(context_chain, table, name, flags) ==
  LookupLoop(context_chain, table, name, flags, 1, "NONE", <<>>, <<>>)

\* Context::Lookup called on the innermost context of the chain: lines
\* 230-233 set the outputs to kNotFound, ABSENT, MISSING_BINDING.
Context_Lookup(context_chain, table, name, flags) ==
  LookupLoop(context_chain, table, name, flags, 1, "ABSENT", <<>>, <<>>)

NoCall ==
  [called |-> FALSE, name |-> "none", flags |-> {},
   result |-> Found(NoHolder, kNotFound, "ABSENT", "MISSING_BINDING",
                    <<>>, <<>>)]

(***************************************************************************)
(* The table machine.                                                      *)
(***************************************************************************)
NoExt == [table |-> NoHandle, pre |-> NoTable, script_context |-> "none",
          ok |-> FALSE, result |-> NoHandle, allocated |-> 0]

NoLk == [name |-> "none", table |-> NoHandle, pre |-> NoTable, r |-> NoResult]

\* A caller extends the native context's table and adopts the result.
ExtendAdopt(script_context) ==
  /\ pc = "running"
  /\ Len(appended) < MaxAppends
  /\ LET e == Extend(heap, script_context_table, script_context)
     IN /\ heap' = e.heap
        /\ ext' = [table |-> script_context_table,
                   pre |-> heap[script_context_table],
                   script_context |-> script_context,
                   ok |-> e.ok, result |-> e.result,
                   allocated |-> Len(e.heap) - Len(heap)]
        /\ IF e.ok
             THEN /\ script_context_table' = e.result
                  /\ appended' = Append(appended, script_context)
                  /\ pc' = pc
             ELSE /\ pc' = "aborted"
                  /\ UNCHANGED <<script_context_table, appended>>
  /\ UNCHANGED <<table0, lk, chain, res>>

TableLookup(name) ==
  /\ pc = "running"
  /\ lk' = [name |-> name, table |-> script_context_table,
            pre |-> heap[script_context_table],
            r |-> Lookup(heap[script_context_table], name)]
  /\ UNCHANGED <<heap, script_context_table, ext, appended, table0, pc,
                 chain, res>>

InitWith(t) ==
  /\ heap = <<t>>
  /\ script_context_table = 1
  /\ ext = NoExt
  /\ appended = <<>>
  /\ table0 = t
  /\ lk = NoLk
  /\ pc = "running"
  /\ chain = <<>>
  /\ res = NoCall

RECURSIVE SeqsUpTo(_, _)
SeqsUpTo(S, n) ==
  IF n = 0 THEN {<<>>}
  ELSE LET P == SeqsUpTo(S, n - 1)
       IN P \cup {Append(s, x) : s \in {q \in P : Len(q) = n - 1}, x \in S}

\* Valid starting tables: used >= 0, length > 0, used < length, the first
\* `used` context slots filled.
ValidTables ==
  {t \in {Table(Len(e), l, e) :
            l \in 1..MaxInitLength,
            e \in SeqsUpTo(ScriptContexts, MaxInitLength - 1)} :
     t.used < t.length}

Init == \E t \in ValidTables : InitWith(t)

Next ==
  \/ \E s \in ScriptContexts : ExtendAdopt(s)
  \/ \E n \in Names : TableLookup(n)

Spec == Init /\ [][Next]_vars

(***************************************************************************)
(* Extend over arbitrary table headers, the ones its CHECKs reject          *)
(* included.  The context slots a header covers are filled in turn with    *)
(* S1, S2, S3; the tables at the size ceiling carry their header only.     *)
(***************************************************************************)
Min(a, b) == IF a < b THEN a ELSE b

FillContext(i) ==
  IF i % 3 = 1 THEN "S1" ELSE IF i % 3 = 2 THEN "S2" ELSE "S3"

Fill(n) == [i \in 1..n |-> FillContext(i)]

HeaderTables ==
  {Table(u, l, Fill(Min(u, l - 1))) : u \in -1..MaxHdr, l \in -1..MaxHdr}

CeilingTables ==
  {Table(l - d, l, <<>>) :
     l \in {kSmiMaxValue \div 2 - 1, kSmiMaxValue \div 2,
            kSmiMaxValue \div 2 + 1},
     d \in {1, 2}}

InitExtend == \E t \in HeaderTables \cup CeilingTables : InitWith(t)

NextExtend == \E s \in ScriptContexts : ExtendAdopt(s)

SpecExtend == InitExtend /\ [][NextExtend]_vars

(***************************************************************************)
(* The context chains Context::Lookup is run on: up to MaxDepth contexts,  *)
(* innermost first, ending at a native context.                            *)
(***************************************************************************)
PlainObject(own, inh, uns, bl) == Object(FALSE, own, inh, uns, bl)

ExtensionObject(own, inh) == Object(TRUE, own, inh, "undefined", "none")

ScriptNode(script) ==
  Context("SCRIPT", "scope_info", NoObject, scope_info(script), TRUE, "",
          NoFunctionVar)

FunctionNode(extension, object, info, fvar) ==
  Context("FUNCTION", extension, object, info, TRUE, "", fvar)

BlockNode(extension, object, info, decl) ==
  Context("BLOCK", extension, object, info, decl, "", NoFunctionVar)

WithNode(object) ==
  Context("WITH", "object", object, {}, FALSE, "", NoFunctionVar)

CatchNode(cname) ==
  Context("CATCH", "string", NoObject, {}, FALSE, cname, NoFunctionVar)

ModuleNode ==
  Context("MODULE", "scope_info", NoObject, {}, FALSE, "", NoFunctionVar)

NativeNode(extension, object) ==
  Context("NATIVE", extension, object, {}, TRUE, "", NoFunctionVar)

FunctionNodes ==
  {FunctionNode("null", NoObject,
                {Var("x", 4, "VAR", "kCreatedInitialized")},
                [name |-> "x", slot |-> 6, mode |-> "CONST"]),
   FunctionNode("null", NoObject, {},
                [name |-> "x", slot |-> 5, mode |-> "CONST_LEGACY"]),
   FunctionNode("object", ExtensionObject("DONT_DELETE", "ABSENT"),
                {Var("x", 4, "VAR", "kCreatedInitialized")}, NoFunctionVar),
   FunctionNode("object", ExtensionObject("ABSENT", "DONT_ENUM"), {},
                [name |-> "x", slot |-> 6, mode |-> "CONST"])}

BlockNodes ==
  {BlockNode("scope_info", NoObject, {}, FALSE),
   BlockNode("scope_info", NoObject,
             {Var("x", 4, "LET", "kNeedsInitialization")}, FALSE),
   BlockNode("scope_info", NoObject, {}, TRUE),
   BlockNode("sloppy_eval", ExtensionObject("DONT_DELETE", "ABSENT"), {},
             FALSE)}

WithNodes ==
  {WithNode(PlainObject("ABSENT", "ABSENT", "object", "true")),
   WithNode(PlainObject("ABSENT", "DONT_ENUM", "undefined", "none")),
   WithNode(PlainObject("Nothing", "Nothing", "undefined", "none")),
   WithNode(PlainObject("NONE", "ABSENT", "throws", "none")),
   WithNode(PlainObject("NONE", "ABSENT", "object", "throws")),
   WithNode(PlainObject("NONE", "ABSENT", "object", "true")),
   WithNode(PlainObject("NONE", "ABSENT", "object", "false"))}

InnerNodes ==
  {ScriptNode("S1"), ScriptNode("S2"), ScriptNode("S3"), ModuleNode,
   CatchNode("x"), CatchNode("e")}
  \cup FunctionNodes \cup BlockNodes \cup WithNodes

\* The native context: no global object yet (bootstrapping), or a global
\* object that lacks the name, has it, inherits it, or fails the probe.
NativeBootstrapping == NativeNode("null", NoObject)

NativeWith(own, inh) ==
  NativeNode("object", PlainObject(own, inh, "undefined", "none"))

\* A native context and the script contexts appended to its table.
Roots ==
  {<<NativeBootstrapping, <<"S1", "S2">> >>,
   <<NativeWith("ABSENT", "ABSENT"), <<"S1", "S2">> >>,
   <<NativeWith("DONT_DELETE", "ABSENT"), <<"S1", "S2">> >>,
   <<NativeWith("ABSENT", "DONT_ENUM"), <<>> >>,
   <<NativeWith("Nothing", "Nothing"), <<"S1", "S2">> >>}

\* Any context is a valid parent, except that a module context sits on a
\* native, script or module context (lines 563-572).
WellFormed(inner) ==
  \A i \in 1..Len(inner) :
    inner[i].kind = "MODULE" =>
      (i = Len(inner) \/ inner[i + 1].kind \in {"SCRIPT", "MODULE"})

Chains == {inner \in SeqsUpTo(InnerNodes, MaxDepth) : WellFormed(inner)}

\* The script context tables behind the native context: the empty table
\* and the table after S1 and S2 were appended by Extend.
RECURSIVE ExtendAll(_, _, _)
ExtendAll(hp, table, scripts) ==
  IF scripts = <<>> THEN [heap |-> hp, table |-> table]
  ELSE LET e == Extend(hp, table, Head(scripts))
       IN ExtendAll(e.heap, e.result, Tail(scripts))

EmptyTable == Table(0, kFirstContextSlot, <<>>)

LookupNames == {"x", "this"}

LookupFlags ==
  SUBSET {"FOLLOW_CONTEXT_CHAIN", "FOLLOW_PROTOTYPE_CHAIN",
          "STOP_AT_DECLARATION_SCOPE", "SKIP_WITH_CONTEXT"}

\* One call of Context::Lookup on the innermost context of the chain.
ContextLookup(name, flags) ==
  /\ ~res.called
  /\ chain # <<>>
  /\ res' = [called |-> TRUE, name |-> name, flags |-> flags,
             result |-> Context_Lookup(chain, heap[script_context_table],
                                       name, flags)]
  /\ UNCHANGED <<heap, script_context_table, ext, appended, table0, lk, pc,
                 chain>>

InitLookup ==
  \E c \in Chains, root \in Roots :
    LET scripts == root[2]
        b == ExtendAll(<<EmptyTable>>, 1, scripts)
    IN /\ heap = b.heap
       /\ script_context_table = b.table
       /\ ext = NoExt
       /\ appended = scripts
       /\ table0 = EmptyTable
       /\ lk = NoLk
       /\ pc = "running"
       /\ chain = Append(c, root[1])
       /\ res = NoCall

NextLookup == \E n \in LookupNames, f \in LookupFlags : ContextLookup(n, f)

SpecLookup == InitLookup /\ [][NextLookup]_vars

(***************************************************************************)
(* GetAttributesAndBindingFlags applied to every variable mode and         *)
(* initialization flag, with the out-parameters holding any value on entry. *)
(***************************************************************************)
VariableModes ==
  {"VAR", "LET", "CONST_LEGACY", "CONST", "IMPORT", "DYNAMIC",
   "DYNAMIC_GLOBAL", "DYNAMIC_LOCAL", "TEMPORARY"}

InitializationFlags == {"kNeedsInitialization", "kCreatedInitialized"}

PropertyAttributeValues ==
  {"ABSENT", "NONE", "READ_ONLY", "DONT_ENUM", "DONT_DELETE"}

BindingFlagValues ==
  {"MUTABLE_IS_INITIALIZED", "MUTABLE_CHECK_INITIALIZED",
   "IMMUTABLE_IS_INITIALIZED", "IMMUTABLE_CHECK_INITIALIZED",
   "IMMUTABLE_IS_INITIALIZED_HARMONY", "IMMUTABLE_CHECK_INITIALIZED_HARMONY",
   "MISSING_BINDING"}

\* One call of GetAttributesAndBindingFlags on the recorded arguments.
Classify ==
  /\ ~res.called
  /\ res' = [res EXCEPT
               !.called = TRUE,
               !.result = GetAttributesAndBindingFlags(
                            res.mode, res.init_flag, res.attributes,
                            res.binding_flags)]
  /\ UNCHANGED <<heap, script_context_table, ext, appended, table0, lk, pc,
                 chain>>

InitClassifier ==
  \E mode \in VariableModes, init_flag \in InitializationFlags,
     attributes \in PropertyAttributeValues,
     binding_flags \in BindingFlagValues :
    /\ heap = <<EmptyTable>>
    /\ script_context_table = 1
    /\ ext = NoExt
    /\ appended = <<>>
    /\ table0 = EmptyTable
    /\ lk = NoLk
    /\ pc = "running"
    /\ chain = <<>>
    /\ res = [called |-> FALSE, mode |-> mode, init_flag |-> init_flag,
              attributes |-> attributes, binding_flags |-> binding_flags,
              result |-> [attributes |-> attributes,
                          binding_flags |-> binding_flags,
                          unreachable |-> FALSE]]

NextClassifier == Classify

SpecClassifier == InitClassifier /\ [][NextClassifier]_vars

(***************************************************************************)
(* Context::declaration_context on chains whose contexts belong to one of  *)
(* two closures, in a build with or without DCHECKs.                       *)
(***************************************************************************)
Closures == {1, 2}

WithClosure(context, closure) == [context EXCEPT !.closure = closure]

DeclarationNodes ==
  {WithNode(PlainObject("ABSENT", "ABSENT", "object", "true")),
   CatchNode("e"), ModuleNode, ScriptNode("S1"),
   FunctionNode("null", NoObject, {},
                [name |-> "x", slot |-> 5, mode |-> "CONST_LEGACY"]),
   BlockNode("scope_info", NoObject, {}, FALSE),
   BlockNode("scope_info", NoObject, {}, TRUE),
   BlockNode("sloppy_eval", ExtensionObject("DONT_DELETE", "ABSENT"), {},
             FALSE)}

DeclarationChains ==
  {inner \in SeqsUpTo({WithClosure(n, k) : n \in DeclarationNodes,
                                          k \in Closures}, MaxDepth) :
     WellFormed(inner)}

NoDeclarationCall ==
  [called |-> FALSE, DEBUG |-> FALSE,
   result |-> [fatal |-> FALSE, current |-> 0, visited |-> <<>>]]

\* One call of declaration_context on the innermost context of the chain.
DeclarationContext(DEBUG) ==
  /\ ~res.called
  /\ chain # <<>>
  /\ res' = [called |-> TRUE, DEBUG |-> DEBUG,
             result |-> declaration_context(chain, DEBUG)]
  /\ UNCHANGED <<heap, script_context_table, ext, appended, table0, lk, pc,
                 chain>>

InitDeclaration ==
  \E c \in DeclarationChains, k \in Closures :
    /\ heap = <<EmptyTable>>
    /\ script_context_table = 1
    /\ ext = NoExt
    /\ appended = <<>>
    /\ table0 = EmptyTable
    /\ lk = NoLk
    /\ pc = "running"
    /\ chain = Append(c, WithClosure(NativeBootstrapping, k))
    /\ res = NoDeclarationCall

NextDeclaration == \E DEBUG \in BOOLEAN : DeclarationContext(DEBUG)

SpecDeclaration == InitDeclaration /\ [][NextDeclaration]_vars

(***************************************************************************)
(* Properties of the script context table.                                 *)
(***************************************************************************)
Declares(t, i, name) == \E v \in scope_info(GetContext(t, i)) : v.name = name

SlotOf(t, i, name) ==
  (CHOOSE v \in scope_info(GetContext(t, i)) : v.name = name).slot

Declaring(t, name) == {i \in 0..(t.used - 1) : Declares(t, i, name)}

Current == heap[script_context_table]

Called == ext.table # NoHandle

PreconditionHolds(t) == t.used >= 0 /\ t.length > 0 /\ t.used < t.length

GrowthRequired(t) == t.used + kFirstContextSlot = t.length

BelowCeiling(t) == t.length < kSmiMaxValue \div 2

\* C1: ScriptContextTable::Lookup returns the smallest index among the first
\* `used` entries whose scope info declares the name, with that entry's
\* slot, and reports no match iff no such entry declares it.
C1_LookupFirstMatch ==
  lk.name # "none" =>
    LET D == Declaring(lk.pre, lk.name)
    IN /\ lk.r.found <=> D # {}
       /\ lk.r.found =>
            /\ lk.r.context_index \in D
            /\ \A j \in D : lk.r.context_index <= j
            /\ lk.r.slot_index = SlotOf(lk.pre, lk.r.context_index, lk.name)

C1_Witness ==
  /\ lk.r.found
  /\ \E i, j \in Declaring(lk.pre, lk.name) :
        /\ i < j
        /\ GetContext(lk.pre, i) # GetContext(lk.pre, j)
        /\ lk.r.context_index = i

\* C2: once Lookup of a name has returned (context index i, slot s), Lookup
\* of that name on the table adopted after any further Extend calls returns
\* the same i and s, and entry i is still the same context.
C2_LookupStableUnderExtend ==
  lk.r.found =>
    /\ Lookup(Current, lk.name).found
    /\ Lookup(Current, lk.name).context_index = lk.r.context_index
    /\ Lookup(Current, lk.name).slot_index = lk.r.slot_index
    /\ GetContext(Current, lk.r.context_index)
         = GetContext(lk.pre, lk.r.context_index)

C2_Witness ==
  /\ lk.r.found
  /\ script_context_table # lk.table
  /\ \E j \in Declaring(Current, lk.name) : j >= lk.pre.used

\* C3 (as amended): Extend on a table whose context slots are exhausted
\* (used + kFirstContextSlot = length, e.g. length 4 and used 3), below the
\* size ceiling, returns a new table of twice the length whose first
\* old-used entries are the old ones in order, whose entry old-used is the
\* new context and whose used is old used + 1.
C3_ExtendFullTable ==
  (Called /\ PreconditionHolds(ext.pre) /\ GrowthRequired(ext.pre)
          /\ BelowCeiling(ext.pre)) =>
    /\ ext.ok
    /\ ext.result # ext.table
    /\ heap[ext.result].length >= 2 * ext.pre.length
    /\ heap[ext.result].length = 2 * ext.pre.length
    /\ \A slot \in DOMAIN ext.pre.elems :
         Get(heap[ext.result], slot) = Get(ext.pre, slot)
    /\ GetContext(heap[ext.result], ext.pre.used) = ext.script_context
    /\ heap[ext.result].used = ext.pre.used + 1

C3_Witness ==
  /\ Called /\ ext.ok
  /\ ext.pre.length = 4 /\ ext.pre.used = 3
  /\ heap[ext.result].length = 8 /\ heap[ext.result].used = 4

\* C3 as stated: Extend on a table with used = length (length 4, used 4)
\* succeeds with used + 1 and at least twice the length.
C3_Original ==
  (Called /\ ext.pre.length = 4 /\ ext.pre.used = 4) =>
    /\ ext.ok
    /\ heap[ext.result].length >= 8
    /\ heap[ext.result].used = 5

\* C4: Extend on a table that satisfies the precondition and has a free
\* context slot allocates nothing and returns the table passed in, with
\* used + 1, the new context at entry old-used, the same length and every
\* earlier entry unchanged.
C4_ExtendInPlace ==
  (Called /\ PreconditionHolds(ext.pre) /\ ~GrowthRequired(ext.pre)) =>
    /\ ext.ok
    /\ ext.result = ext.table
    /\ ext.allocated = 0
    /\ heap[ext.result].used = ext.pre.used + 1
    /\ GetContext(heap[ext.result], ext.pre.used) = ext.script_context
    /\ heap[ext.result].length = ext.pre.length
    /\ \A i \in 0..(ext.pre.used - 1) :
         GetContext(heap[ext.result], i) = GetContext(ext.pre, i)

C4_Witness ==
  /\ Called /\ ext.ok
  /\ ext.pre.length = 4 /\ ext.pre.used = 2
  /\ ext.result = ext.table
  /\ heap[ext.result].used = 3

\* C5: from a valid starting table, after every successful append
\* used < length, used is the starting used plus the number of appends, the
\* length is the previous one or its double, and entries 0..used-1 are the
\* starting entries followed by the appended contexts in append order.
C5_TableInvariant ==
  PreconditionHolds(table0) =>
    /\ Current.used < Current.length
    /\ Current.used = table0.used + Len(appended)
    /\ (Called /\ ext.ok) =>
         heap[ext.result].length \in {ext.pre.length, 2 * ext.pre.length}
    /\ \A i \in 0..(table0.used - 1) :
         GetContext(Current, i) = GetContext(table0, i)
    /\ \A k \in 1..Len(appended) :
         GetContext(Current, table0.used + k - 1) = appended[k]

C5_Witness ==
  /\ PreconditionHolds(table0)
  /\ table0.used = 1
  /\ Len(appended) >= 4
  /\ Current.length = 4 * table0.length
  /\ appended[1] # appended[2]

\* C6: when Extend grows the table, the table passed in is left as it was
\* (old used, old length, old entries, no new context); only the returned
\* table holds the new entry.
C6_GrowthLeavesOldTable ==
  (Called /\ ext.ok /\ ext.result # ext.table) =>
    /\ heap[ext.table] = ext.pre
    /\ heap[ext.table].used = ext.pre.used
    /\ heap[ext.table].length = ext.pre.length
    /\ ext.pre.used + kFirstContextSlot \notin DOMAIN heap[ext.table].elems
    /\ GetContext(heap[ext.result], ext.pre.used) = ext.script_context

C6_Witness ==
  /\ Called /\ ext.ok /\ ext.result # ext.table
  /\ ext.pre.used >= 1
  /\ heap[ext.table].used + 1 = heap[ext.result].used

\* C7: Extend aborts, returning no table and changing nothing, when on entry
\* used < 0, length <= 0 or used >= length, and when growth is required but
\* length is not below half of Smi::kMaxValue.
C7_ExtendAborts ==
  (Called /\ (\/ ext.pre.used < 0
              \/ ext.pre.length <= 0
              \/ ext.pre.used >= ext.pre.length
              \/ (GrowthRequired(ext.pre) /\ ~BelowCeiling(ext.pre)))) =>
    /\ ~ext.ok
    /\ ext.result = NoHandle
    /\ pc = "aborted"
    /\ ext.allocated = 0
    /\ script_context_table = ext.table
    /\ Current = ext.pre

C7_Witness ==
  /\ Called /\ ~ext.ok /\ pc = "aborted"
  /\ GrowthRequired(ext.pre) /\ ~BelowCeiling(ext.pre)
  /\ PreconditionHolds(ext.pre)

(***************************************************************************)
(* Properties of Context::Lookup.                                          *)
(***************************************************************************)
Result == res.result

\* the With subject of some context of the chain is the binding location
HolderIsWithSubject ==
  Result.holder.type = "object" /\ IsWithContext(chain[Result.holder.node])

VisitedNodes == {Result.visited[k] : k \in 1..Len(Result.visited)}

ProbedNodes == {Result.probes[k][1] : k \in 1..Len(Result.probes)}

NotFound == Result.holder.type = "null" /\ ~Result.pending_exception

\* C8: under SKIP_WITH_CONTEXT no With subject is returned as the binding
\* location and no With subject is probed, whatever properties it has; with
\* FOLLOW_CONTEXT_CHAIN the walk goes on from each With context to its
\* previous context.
C8_SkipWithNeverProbes ==
  (res.called /\ "SKIP_WITH_CONTEXT" \in res.flags) =>
    /\ ~HolderIsWithSubject
    /\ \A i \in ProbedNodes : ~IsWithContext(chain[i])
    /\ \A i \in VisitedNodes :
         (IsWithContext(chain[i]) /\ "FOLLOW_CONTEXT_CHAIN" \in res.flags)
           => i + 1 \in VisitedNodes

C8_Witness ==
  /\ res.called
  /\ res.flags = {"SKIP_WITH_CONTEXT", "FOLLOW_CONTEXT_CHAIN",
                  "FOLLOW_PROTOTYPE_CHAIN"}
  /\ res.name = "x"
  /\ IsWithContext(chain[1])
  /\ chain[1].object.own = "NONE"
  /\ Result.holder.type = "context"
  /\ Result.holder.node = 2

\* C9: for every combination of flags, Lookup of "this" never returns a With
\* subject as the binding location.
C9_ThisNeverOnWithSubject ==
  (res.called /\ res.name = "this") => ~HolderIsWithSubject

IsFunctionScriptOrNative(c) ==
  IsFunctionContext(c) \/ IsScriptContext(c) \/ IsNativeContext(c)

IsDeclarationBoundary(c) ==
  \/ IsFunctionScriptOrNative(c)
  \/ (IsBlockContext(c)
        /\ (c.extension = "sloppy_eval" \/ c.is_declaration_scope))

NearestFunctionScriptOrNative ==
  CHOOSE i \in 1..Len(chain) :
    /\ IsFunctionScriptOrNative(chain[i])
    /\ \A j \in 1..(i - 1) : ~IsFunctionScriptOrNative(chain[j])

NearestDeclarationBoundary ==
  CHOOSE i \in 1..Len(chain) :
    /\ IsDeclarationBoundary(chain[i])
    /\ \A j \in 1..(i - 1) : ~IsDeclarationBoundary(chain[j])

StartsInNestedBlock ==
  /\ res.called
  /\ {"FOLLOW_CONTEXT_CHAIN", "STOP_AT_DECLARATION_SCOPE"} \subseteq res.flags
  /\ IsBlockContext(chain[1]) /\ ~IsDeclarationBoundary(chain[1])

\* The walk inspects nothing beyond node k and, when it finds nothing and
\* no probe fails, has inspected exactly nodes 1..k.
StopsAt(k) ==
  /\ VisitedNodes \subseteq 1..k
  /\ ProbedNodes \subseteq 1..k
  /\ Result.holder.type # "null" => Result.holder.node \in 1..k
  /\ NotFound => Result.visited = [i \in 1..k |-> i]

\* C10 (as amended): with FOLLOW_CONTEXT_CHAIN and STOP_AT_DECLARATION_SCOPE,
\* started in a non-declaring block, the walk inspects the contexts up to
\* and including the nearest enclosing declaration context (a function,
\* script or native context, or a block that is a declaration scope or
\* carries the sloppy-eval extension) and nothing beyond it.
C10_StopsAtDeclarationContext ==
  StartsInNestedBlock => StopsAt(NearestDeclarationBoundary)

C10_Witness ==
  /\ StartsInNestedBlock
  /\ res.name = "x"
  /\ Len(chain) = 3
  /\ IsBlockContext(chain[2]) /\ chain[2].is_declaration_scope
  /\ Lookup(heap[script_context_table], "x").found
  /\ chain[3].extension = "object"
  /\ NotFound
  /\ Result.visited = <<1, 2>>

\* C10 as stated: the walk inspects the contexts up to and including the
\* nearest enclosing function, script or native context.
C10_Original ==
  StartsInNestedBlock => StopsAt(NearestFunctionScriptOrNative)

HolderIsContext(i) == Result.holder = Holder("context", i, "none")

\* C11: a catch context binds exactly its catch name.  A walk that reaches
\* a catch context whose name is the one looked up returns that context
\* with THROWN_OBJECT_INDEX, attributes NONE and MUTABLE_IS_INITIALIZED; a
\* catch context with another name is never the holder, and under
\* FOLLOW_CONTEXT_CHAIN the walk goes on to its previous context.
C11_CatchBindsItsName ==
  res.called =>
    \A i \in 1..Len(chain) :
      IsCatchContext(chain[i]) =>
        IF chain[i].catch_name = res.name
          THEN i \in VisitedNodes =>
                 /\ HolderIsContext(i)
                 /\ Result.index = THROWN_OBJECT_INDEX
                 /\ Result.attributes = "NONE"
                 /\ Result.binding_flags = "MUTABLE_IS_INITIALIZED"
                 /\ ~Result.pending_exception
          ELSE /\ Result.holder.node # i
               /\ (i \in VisitedNodes
                     /\ "FOLLOW_CONTEXT_CHAIN" \in res.flags)
                    => i + 1 \in VisitedNodes

\* a walk passes a catch context named "e" and is answered by the catch
\* context named "x" behind it
C11_Witness ==
  /\ res.called /\ res.name = "x"
  /\ Len(chain) = 3
  /\ IsCatchContext(chain[1]) /\ chain[1].catch_name = "e"
  /\ IsCatchContext(chain[2]) /\ chain[2].catch_name = "x"
  /\ HolderIsContext(2)
  /\ Result.index = THROWN_OBJECT_INDEX
  /\ Result.visited = <<1, 2>>

\* the k-th query of the walk is an object-model probe that raises
ProbeFailed(k) ==
  LET i == Result.probes[k][1]
      kind == Result.probes[k][2]
      object == chain[i].object
  IN \/ kind = "GetOwnPropertyAttributes"
        /\ GetOwnPropertyAttributes(object) = "Nothing"
     \/ kind = "GetPropertyAttributes"
        /\ GetPropertyAttributes(object) = "Nothing"
     \/ kind = "GetUnscopables" /\ object.unscopables = "throws"
     \/ kind = "GetBlacklist" /\ object.blacklist = "throws"

\* C12: a failing object-model probe (own or full attribute probe, fetch
\* of the unscopables object, fetch of the name's entry in it) ends the
\* walk at once: it is the last query made, its context is the last one
\* entered, no holder is returned, and the exception left pending tells
\* the outcome apart from not-found.  No outcome carries a pending
\* exception without a failed probe.
C12_ProbeFailureAborts ==
  res.called =>
    /\ \A k \in 1..Len(Result.probes) :
         ProbeFailed(k) =>
           /\ k = Len(Result.probes)
           /\ Result.visited[Len(Result.visited)] = Result.probes[k][1]
           /\ Result.holder = NoHolder
           /\ Result.index = kNotFound
           /\ Result.pending_exception
           /\ ~NotFound
    /\ Result.pending_exception =>
         (Result.probes # <<>> /\ ProbeFailed(Len(Result.probes)))

\* the fetch of the name's entry in the unscopables object raises at a
\* with context that has an enclosing catch context binding the name
C12_Witness ==
  /\ res.called /\ res.name = "x"
  /\ res.flags = {"FOLLOW_CONTEXT_CHAIN", "FOLLOW_PROTOTYPE_CHAIN"}
  /\ Len(chain) = 3
  /\ IsWithContext(chain[1]) /\ chain[1].object.blacklist = "throws"
  /\ IsCatchContext(chain[2]) /\ chain[2].catch_name = "x"
  /\ Result.probes = <<<<1, "GetPropertyAttributes">>,
                       <<1, "GetUnscopables">>, <<1, "GetBlacklist">>>>
  /\ Result.visited = <<1>>
  /\ Result.pending_exception

\* the lookup returned script context `script` with slot `slot`, either out
\* of the script context table or as a context of the chain
YieldsScript(script, slot) ==
  /\ Result.index = slot
  /\ \/ Result.holder.type = "script_context" /\ Result.holder.script = script
     \/ /\ Result.holder.type = "context"
        /\ chain[Result.holder.node] = ScriptNode(script)

\* the chain Native <- S1 <- S2 with table order [S1, S2]
ChainS2S1Native ==
  /\ Len(chain) = 3
  /\ chain[1] = ScriptNode("S2") /\ chain[2] = ScriptNode("S1")
  /\ appended = <<"S1", "S2">>

\* C13 (as amended): with table order [S1, S2], S1 declaring "x" at slot 3
\* and S2 at slot 5, ScriptContextTable::Lookup of "x" yields S1 and slot 3,
\* and so does Context::Lookup called on the native context when it has a
\* global object; Context::Lookup called on S2, the innermost context of
\* the chain Native <- S1 <- S2, yields S2 and slot 5.
C13_ScriptLookupByStart ==
  (res.called /\ res.name = "x" /\ appended = <<"S1", "S2">>) =>
    /\ LET r == Lookup(heap[script_context_table], "x")
       IN /\ r.found /\ r.slot_index = 3
          /\ GetContext(heap[script_context_table], r.context_index) = "S1"
    /\ (Len(chain) = 1 /\ chain[1].extension = "object")
         => YieldsScript("S1", 3)
    /\ ChainS2S1Native => YieldsScript("S2", 5)

C13_Witness ==
  /\ res.called /\ res.name = "x"
  /\ res.flags = {"FOLLOW_CONTEXT_CHAIN", "FOLLOW_PROTOTYPE_CHAIN"}
  /\ ChainS2S1Native
  /\ chain[3].extension = "object"
  /\ Result.holder = Holder("context", 1, "none")
  /\ Result.index = 5
  /\ Result.visited = <<1>>

\* C13 as stated: on the chain Native <- S1 <- S2 with table order
\* [S1, S2], lookup of "x" yields S1 and slot 3.
C13_Original ==
  (res.called /\ res.name = "x" /\ ChainS2S1Native) => YieldsScript("S1", 3)

(***************************************************************************)
(* Properties of GetAttributesAndBindingFlags.                             *)
(***************************************************************************)
StaticModes == {"VAR", "LET", "CONST_LEGACY", "CONST"}

\* the call wrote an attribute and a binding state
WritesPair ==
  /\ ~Result.unreachable
  /\ Result.attributes \in {"NONE", "READ_ONLY"}
  /\ Result.binding_flags \in BindingFlagValues \ {"MISSING_BINDING"}

\* C14 (as amended): GetAttributesAndBindingFlags yields an attribute and
\* a binding state for exactly the modes VAR, LET, CONST_LEGACY and CONST,
\* for both init flags; for IMPORT, DYNAMIC, DYNAMIC_GLOBAL, DYNAMIC_LOCAL
\* and TEMPORARY it runs into UNREACHABLE() and writes neither output, so
\* both keep the values they held on entry.  A VAR binding is NONE and
\* MUTABLE_IS_INITIALIZED whatever the init flag.
C14_ClassifierOnStaticModes ==
  res.called =>
    /\ res.mode \in StaticModes => WritesPair
    /\ res.mode \notin StaticModes =>
         /\ Result.unreachable
         /\ Result.attributes = res.attributes
         /\ Result.binding_flags = res.binding_flags
    /\ res.mode = "VAR" =>
         /\ Result.attributes = "NONE"
         /\ Result.binding_flags = "MUTABLE_IS_INITIALIZED"

\* a VAR binding flagged as needing initialization
C14_Witness ==
  /\ res.called /\ res.mode = "VAR"
  /\ res.init_flag = "kNeedsInitialization"
  /\ res.attributes = "ABSENT" /\ res.binding_flags = "MISSING_BINDING"
  /\ Result.attributes = "NONE"
  /\ Result.binding_flags = "MUTABLE_IS_INITIALIZED"

\* C14 as stated: every mode and init flag yields an attribute and a
\* binding state.
C14_Original == res.called => WritesPair

\* C15: LET is NONE with MUTABLE_CHECK_INITIALIZED iff the init flag is
\* kNeedsInitialization, else MUTABLE_IS_INITIALIZED; CONST_LEGACY is
\* READ_ONLY with IMMUTABLE_CHECK_INITIALIZED iff kNeedsInitialization, else
\* IMMUTABLE_IS_INITIALIZED; CONST is READ_ONLY with
\* IMMUTABLE_CHECK_INITIALIZED_HARMONY iff kNeedsInitialization, else
\* IMMUTABLE_IS_INITIALIZED_HARMONY.  The attribute is fixed by the mode.
C15_InitFlagThreaded ==
  LET needs == res.init_flag = "kNeedsInitialization"
  IN res.called =>
       /\ res.mode = "LET" =>
            /\ Result.attributes = "NONE"
            /\ Result.binding_flags =
                 IF needs THEN "MUTABLE_CHECK_INITIALIZED"
                 ELSE "MUTABLE_IS_INITIALIZED"
       /\ res.mode = "CONST_LEGACY" =>
            /\ Result.attributes = "READ_ONLY"
            /\ Result.binding_flags =
                 IF needs THEN "IMMUTABLE_CHECK_INITIALIZED"
                 ELSE "IMMUTABLE_IS_INITIALIZED"
       /\ res.mode = "CONST" =>
            /\ Result.attributes = "READ_ONLY"
            /\ Result.binding_flags =
                 IF needs THEN "IMMUTABLE_CHECK_INITIALIZED_HARMONY"
                 ELSE "IMMUTABLE_IS_INITIALIZED_HARMONY"

\* a CONST binding flagged as needing initialization
C15_Witness ==
  /\ res.called /\ res.mode = "CONST"
  /\ res.init_flag = "kNeedsInitialization"
  /\ res.attributes = "ABSENT" /\ res.binding_flags = "MISSING_BINDING"
  /\ Result.attributes = "READ_ONLY"
  /\ Result.binding_flags = "IMMUTABLE_CHECK_INITIALIZED_HARMONY"

\* C16: a walk that ends without a hit and without a failed probe returns
\* no holder, index kNotFound, attributes ABSENT and MISSING_BINDING,
\* whatever the probes of the contexts it passed had read.
C16_NotFoundAllAbsent ==
  (res.called /\ NotFound) =>
    /\ Result.holder = NoHolder
    /\ Result.index = kNotFound
    /\ Result.attributes = "ABSENT"
    /\ Result.binding_flags = "MISSING_BINDING"

\* the walk passes a with subject that has the property, with attributes
\* NONE, but lists it as unscopable, and finds nothing in the script
\* context and the native context without global object further out
C16_Witness ==
  /\ res.called /\ res.name = "x" /\ NotFound
  /\ res.flags = {"FOLLOW_CONTEXT_CHAIN", "FOLLOW_PROTOTYPE_CHAIN"}
  /\ Len(chain) = 3
  /\ IsWithContext(chain[1])
  /\ chain[1].object.own = "NONE" /\ chain[1].object.blacklist = "true"
  /\ chain[2] = ScriptNode("S3")
  /\ Result.visited = <<1, 2, 3>>
  /\ <<1, "GetBlacklist">> \in {Result.probes[k] : k \in 1..Len(Result.probes)}
  /\ chain[3].extension = "null"

\* the queries the walk made at context i, in order
ProbesAt(i) ==
  SelectSeq([k \in 1..Len(Result.probes) |-> Result.probes[k]],
            LAMBDA q : q[1] = i)

\* C17: a walk that reaches a native context with a global object queries
\* the script context table before anything else there.  When a script
\* context in the table declares the name, the holder is the first such
\* script context, with its slot and the attributes and binding flags
\* GetAttributesAndBindingFlags gives for its mode and init flag, and the
\* global object is not probed, whether or not it has the property.
C17_TableBeforeGlobalObject ==
  res.called =>
    \A i \in VisitedNodes :
      (IsNativeContext(chain[i]) /\ chain[i].extension = "object") =>
        LET D == Declaring(Current, res.name)
            first == CHOOSE j \in D : \A k \in D : j <= k
            v == CHOOSE w \in scope_info(GetContext(Current, first)) :
                   w.name = res.name
            b == GetAttributesAndBindingFlags(v.mode, v.init_flag, "ABSENT",
                                              "MISSING_BINDING")
        IN /\ ProbesAt(i) # <<>>
           /\ ProbesAt(i)[1] = <<i, "ScriptContextTable">>
           /\ D # {} =>
                /\ ProbesAt(i) = << <<i, "ScriptContextTable">> >>
                /\ Result.holder =
                     Holder("script_context", i, GetContext(Current, first))
                /\ Result.index = v.slot
                /\ Result.attributes = b.attributes
                /\ Result.binding_flags = b.binding_flags

\* the global object has the name as an own property and S1, S2 declare it
C17_Witness ==
  /\ res.called /\ res.name = "x"
  /\ res.flags = {"FOLLOW_CONTEXT_CHAIN", "FOLLOW_PROTOTYPE_CHAIN"}
  /\ Len(chain) = 2 /\ chain[1] = CatchNode("e")
  /\ chain[2] = NativeWith("DONT_DELETE", "ABSENT")
  /\ appended = <<"S1", "S2">>
  /\ Result.holder = Holder("script_context", 2, "S1")
  /\ Result.index = 3
  /\ Result.attributes = "NONE"
  /\ Result.binding_flags = "MUTABLE_CHECK_INITIALIZED"
  /\ Result.probes = << <<2, "ScriptContextTable">> >>

\* the kinds of the queries made at context i, in order
ProbeKindsAt(i) == [k \in 1..Len(ProbesAt(i)) |-> ProbesAt(i)[k][2]]

ProbeKinds == {Result.probes[k][2] : k \in 1..Len(Result.probes)}

\* C18: at a with context reached with FOLLOW_PROTOTYPE_CHAIN set and
\* SKIP_WITH_CONTEXT clear, for a name other than "this": a property the
\* subject has is treated as absent exactly when the subject's unscopables
\* value is an object whose entry for the name is true; the subject is then
\* not the holder and under FOLLOW_CONTEXT_CHAIN the walk goes on to the
\* previous context, while otherwise (no fetch raising) the subject is the
\* holder with the property's attributes.  When the subject lacks the
\* property the unscopables value is not fetched.  Without
\* FOLLOW_PROTOTYPE_CHAIN neither the unscopables value nor an entry of it
\* is fetched anywhere.
C18_UnscopablesHonoured ==
  res.called =>
    /\ "FOLLOW_PROTOTYPE_CHAIN" \notin res.flags =>
         ProbeKinds \cap {"GetUnscopables", "GetBlacklist"} = {}
    /\ ("FOLLOW_PROTOTYPE_CHAIN" \in res.flags
          /\ "SKIP_WITH_CONTEXT" \notin res.flags /\ res.name # "this") =>
         \A i \in VisitedNodes :
           IsWithContext(chain[i]) =>
             LET subject == chain[i].object
                 attrs == GetPropertyAttributes(subject)
                 listed == /\ subject.unscopables = "object"
                           /\ subject.blacklist = "true"
                 raises == \/ subject.unscopables = "throws"
                           \/ /\ subject.unscopables = "object"
                              /\ subject.blacklist = "throws"
             IN /\ attrs = "ABSENT" =>
                     /\ ProbeKindsAt(i) = <<"GetPropertyAttributes">>
                     /\ Result.holder # Holder("object", i, "none")
                /\ attrs \notin {"ABSENT", "Nothing"} =>
                     /\ ProbeKindsAt(i)[2] = "GetUnscopables"
                     /\ listed =>
                          /\ Result.holder # Holder("object", i, "none")
                          /\ "FOLLOW_CONTEXT_CHAIN" \in res.flags
                               => i + 1 \in VisitedNodes
                     /\ (~listed /\ ~raises) =>
                          /\ Result.holder = Holder("object", i, "none")
                          /\ Result.attributes = attrs

\* the subject has the property and lists it as unscopable; the walk goes
\* on and finds the name in the enclosing catch context
C18_Witness ==
  /\ res.called /\ res.name = "x"
  /\ res.flags = {"FOLLOW_CONTEXT_CHAIN", "FOLLOW_PROTOTYPE_CHAIN"}
  /\ Len(chain) = 3
  /\ chain[1] = WithNode(PlainObject("NONE", "ABSENT", "object", "true"))
  /\ chain[2] = CatchNode("x")
  /\ ProbeKindsAt(1) = <<"GetPropertyAttributes", "GetUnscopables",
                         "GetBlacklist">>
  /\ Result.holder = Holder("context", 2, "none")

\* the walk got past the extension object of context i, if it has one
PastExtension(i) ==
  /\ i \in VisitedNodes
  /\ Result.holder # Holder("object", i, "none")
  /\ ~(Result.pending_exception /\ Result.visited[Len(Result.visited)] = i)

\* C19: at a function context whose function name variable has the name
\* looked up, once the extension object is out of the way: when the scope
\* info has a context slot for the name, that slot is returned; when it
\* has none and FOLLOW_CONTEXT_CHAIN is set, the context is returned with
\* the function name slot, READ_ONLY and IMMUTABLE_IS_INITIALIZED (mode
\* CONST_LEGACY) or IMMUTABLE_IS_INITIALIZED_HARMONY; when it has none and
\* FOLLOW_CONTEXT_CHAIN is clear, the name is not found.
C19_FunctionNameSlot ==
  res.called =>
    \A i \in 1..Len(chain) :
      (IsFunctionContext(chain[i]) /\ chain[i].function_var.name = res.name
         /\ PastExtension(i)) =>
        LET s == ContextSlotIndex(chain[i].info, res.name)
            fvar == chain[i].function_var
        IN IF s.slot_index >= 0
             THEN HolderIsContext(i) /\ Result.index = s.slot_index
           ELSE IF "FOLLOW_CONTEXT_CHAIN" \in res.flags
             THEN /\ HolderIsContext(i)
                  /\ Result.index = fvar.slot
                  /\ Result.attributes = "READ_ONLY"
                  /\ Result.binding_flags =
                       IF fvar.mode = "CONST_LEGACY"
                         THEN "IMMUTABLE_IS_INITIALIZED"
                         ELSE "IMMUTABLE_IS_INITIALIZED_HARMONY"
           ELSE NotFound

\* the function name slot answers behind a catch context of another name
C19_Witness ==
  /\ res.called /\ res.name = "x"
  /\ res.flags = {"FOLLOW_CONTEXT_CHAIN"}
  /\ Len(chain) = 3 /\ chain[1] = CatchNode("e")
  /\ IsFunctionContext(chain[2])
  /\ chain[2].function_var = [name |-> "x", slot |-> 5, mode |-> "CONST_LEGACY"]
  /\ ContextSlotIndex(chain[2].info, "x").slot_index = kNotFound
  /\ HolderIsContext(2)
  /\ Result.index = 5
  /\ Result.attributes = "READ_ONLY"
  /\ Result.binding_flags = "IMMUTABLE_IS_INITIALIZED"

(***************************************************************************)
(* Properties of Context::declaration_context.                             *)
(***************************************************************************)
\* the contexts reached through previous, up to the first declaration
\* context, whose closure is not the receiver's
ForeignOnTheWay ==
  {j \in 2..NearestDeclarationBoundary : chain[j].closure # chain[1].closure}

ReceiverProbed(c) ==
  /\ \/ c.kind \in {"NATIVE", "FUNCTION", "BLOCK"}
     \/ (c.kind = "WITH" /\ "SKIP_WITH_CONTEXT" \notin res.flags)
  /\ \/ c.kind = "WITH"
     \/ (c.kind = "BLOCK" /\ c.extension = "sloppy_eval")
     \/ (c.kind \in {"NATIVE", "FUNCTION"} /\ c.extension = "object")

\* the script context table behind native context c declares the name
TableBinds(c) ==
  /\ c.kind = "NATIVE" /\ ReceiverProbed(c)
  /\ Declaring(Current, res.name) # {}

\* the receiver of c has the name as a property, as seen under the flags
ObjectBinds(c) ==
  /\ ReceiverProbed(c)
  /\ LET o == c.object
         full == IF o.own = "ABSENT" THEN o.inherited ELSE o.own
     IN IF "FOLLOW_PROTOTYPE_CHAIN" \notin res.flags \/ o.is_context_extension
          THEN o.own \notin {"ABSENT", "Nothing"}
        ELSE IF c.kind = "WITH"
          THEN /\ res.name # "this"
               /\ full \notin {"ABSENT", "Nothing"}
               /\ o.unscopables # "throws"
               /\ o.unscopables = "object" => o.blacklist = "false"
        ELSE full \notin {"ABSENT", "Nothing"}

\* c has a slot for the name: a context slot of its scope info, the
\* function name slot, or the catch variable
SlotBinds(c) ==
  \/ /\ c.kind \in {"FUNCTION", "BLOCK", "SCRIPT"}
     /\ \E v \in c.info : v.name = res.name
  \/ c.kind = "FUNCTION" /\ c.function_var.name = res.name
  \/ c.kind = "CATCH" /\ c.catch_name = res.name

Binds(c) == TableBinds(c) \/ ObjectBinds(c) \/ SlotBinds(c)

\* the walk does not go on from c
StopCondition(c) ==
  \/ c.kind = "NATIVE"
  \/ ("STOP_AT_DECLARATION_SCOPE" \in res.flags /\ IsDeclarationBoundary(c))

\* C21: with FOLLOW_CONTEXT_CHAIN the walk enters the contexts of the chain
\* in order, each at most once, and has ended when it has entered the
\* native context.  When it returns a binding found at context N, no
\* context before N binds the name under the flags of the call or is a
\* stop condition (a native context, or a declaration context under
\* STOP_AT_DECLARATION_SCOPE), N binds the name, and when the extension
\* object of N has the name the holder is that object and not the context
\* with a slot of the same name.
C21_InnermostBindingWins ==
  (res.called /\ "FOLLOW_CONTEXT_CHAIN" \in res.flags) =>
    /\ Len(Result.visited) \in 1..Len(chain)
    /\ Result.visited = [i \in 1..Len(Result.visited) |-> i]
    /\ Result.holder.type # "null" =>
         LET N == Result.holder.node
         IN /\ Result.visited = [i \in 1..N |-> i]
            /\ \A j \in 1..(N - 1) :
                 ~Binds(chain[j]) /\ ~StopCondition(chain[j])
            /\ Binds(chain[N])
            /\ TableBinds(chain[N]) => Result.holder.type = "script_context"
            /\ (ObjectBinds(chain[N]) /\ ~TableBinds(chain[N]))
                 => Result.holder = Holder("object", N, "none")

\* behind a catch context of another name, a function context whose
\* extension object and scope info both have the name answers with the
\* extension object, although the table behind the native context
\* declares the name too
C21_Witness ==
  /\ res.called /\ res.name = "x"
  /\ res.flags = {"FOLLOW_CONTEXT_CHAIN", "FOLLOW_PROTOTYPE_CHAIN"}
  /\ Len(chain) = 3 /\ chain[1] = CatchNode("e")
  /\ IsFunctionContext(chain[2]) /\ chain[2].extension = "object"
  /\ chain[2].object.own = "DONT_DELETE"
  /\ ContextSlotIndex(chain[2].info, "x").slot_index = 4
  /\ chain[3].extension = "object" /\ appended = <<"S1", "S2">>
  /\ Result.holder = Holder("object", 2, "none")
  /\ Result.attributes = "DONT_DELETE"
  /\ Result.visited = <<1, 2>>

====
